---- MODULE Spec2Model ----
(***************************************************************************)
(* go-monzo: the credential file (~/.go-monzo/token.json), the login       *)
(* command with its callback listener, and the authenticated commands      *)
(* (accounts, balance, transactions) that read the credential file.        *)
(***************************************************************************)
EXTENDS Integers, Sequences, FiniteSets, TLC

\* Bounds of the model.
MaxTime == 2        \* the wall clock runs over 0..MaxTime (epoch seconds)
MaxRequests == 2    \* /callback requests served during one login attempt

(***************************************************************************)
(* TokenResponse (cmd/login.go) and its JSON encoding.                     *)
(***************************************************************************)

\* The zero value of TokenResponse (var token TokenResponse).
ZeroToken ==
  [AccessToken |-> "", TokenType |-> "", ExpiresIn |-> 0,
   RefreshToken |-> "", Scope |-> "", UserID |-> ""]

\* Token responses the token endpoint can return (decoded TokenResponse).
TokenA ==
  [AccessToken |-> "a1", TokenType |-> "Bearer", ExpiresIn |-> 1,
   RefreshToken |-> "r1", Scope |-> "", UserID |-> "u1"]

TokenB ==
  [AccessToken |-> "a2", TokenType |-> "Bearer", ExpiresIn |-> 2,
   RefreshToken |-> "", Scope |-> "s", UserID |-> "u2"]

TokenResponse == {TokenA, TokenB}

\* json.MarshalIndent(token): one key per struct field; refresh_token carries
\* omitempty, so it is left out when it is the empty string.
Marshal(token) ==
  LET full == [access_token |-> token.AccessToken,
               token_type |-> token.TokenType,
               expires_in |-> token.ExpiresIn,
               refresh_token |-> token.RefreshToken,
               scope |-> token.Scope,
               user_id |-> token.UserID]
  IN IF token.RefreshToken = ""
       THEN [k \in (DOMAIN full) \ {"refresh_token"} |-> full[k]]
       ELSE full

\* Unmarshal with the refresh_token tag misspelt: the key never matches.
UnmarshalTagTypo(obj) ==
  [AccessToken |-> IF "access_token" \in DOMAIN obj THEN obj.access_token ELSE "",
   TokenType |-> IF "token_type" \in DOMAIN obj THEN obj.token_type ELSE "",
   ExpiresIn |-> IF "expires_in" \in DOMAIN obj THEN obj.expires_in ELSE 0,
   RefreshToken |-> "",
   Scope |-> IF "scope" \in DOMAIN obj THEN obj.scope ELSE "",
   UserID |-> IF "user_id" \in DOMAIN obj THEN obj.user_id ELSE ""]

\* json.Unmarshal(data, &token) on a JSON object: a key that is present sets
\* its field, a missing key leaves the zero value, a key with no matching
\* field (expires_at) is ignored.
Unmarshal(obj) ==
  [AccessToken |-> IF "access_token" \in DOMAIN obj THEN obj.access_token ELSE "",
   TokenType |-> IF "token_type" \in DOMAIN obj THEN obj.token_type ELSE "",
   ExpiresIn |-> IF "expires_in" \in DOMAIN obj THEN obj.expires_in ELSE 0,
   RefreshToken |-> IF "refresh_token" \in DOMAIN obj THEN obj.refresh_token ELSE "",
   Scope |-> IF "scope" \in DOMAIN obj THEN obj.scope ELSE "",
   UserID |-> IF "user_id" \in DOMAIN obj THEN obj.user_id ELSE ""]

(***************************************************************************)
(* The credential file: absent, undecodable bytes (also the empty file     *)
(* os.WriteFile leaves between truncating and writing), or a JSON object.  *)
(***************************************************************************)
Absent == [kind |-> "absent"]
Corrupt == [kind |-> "corrupt"]
JSONFile(obj) == [kind |-> "json", obj |-> obj]

\* A record as the StoredToken of the tests lays it out: the TokenResponse
\* fields plus expires_at.
StoredFile(token, expiresAt) ==
  JSONFile(Marshal(token) @@ [expires_at |-> expiresAt])

\* Contents token.json can have when a command starts.
InitialFiles ==
  {Absent, Corrupt, JSONFile(Marshal(TokenA)), JSONFile(Marshal(TokenB))}
    \cup {StoredFile(t, e) : t \in TokenResponse, e \in {1, MaxTime + 1}}

NoError == "nil"

\* loadToken with the error of json.Unmarshal dropped: undecodable content
\* yields the zero token and no error.
loadTokenIgnoresDecodeError(f) ==
  IF f.kind = "absent"
    THEN [ok |-> FALSE, token |-> ZeroToken, err |-> "ErrNotExist",
          file |-> f, net |-> << >>]
  ELSE IF f.kind = "corrupt"
    THEN [ok |-> TRUE, token |-> ZeroToken, err |-> NoError,
          file |-> f, net |-> << >>]
  ELSE [ok |-> TRUE, token |-> Unmarshal(f.obj), err |-> NoError,
        file |-> f, net |-> << >>]

\* loadToken: os.ReadFile, then json.Unmarshal into a TokenResponse.  The
\* result names what is returned, the file afterwards and the network
\* requests made.
loadToken(f) ==
  IF f.kind = "absent"
    THEN [ok |-> FALSE, token |-> ZeroToken, err |-> "ErrNotExist",
          file |-> f, net |-> << >>]
  ELSE IF f.kind = "corrupt"
    THEN [ok |-> FALSE, token |-> ZeroToken, err |-> "SyntaxError",
          file |-> f, net |-> << >>]
  ELSE [ok |-> TRUE, token |-> Unmarshal(f.obj), err |-> NoError,
        file |-> f, net |-> << >>]

\* saveToken: the bytes os.WriteFile writes to token.json.
saveToken(token) == JSONFile(Marshal(token))

(***************************************************************************)
(* Client credentials: the --client-id/--client-secret flags, the          *)
(* MONZO_CLIENT_ID/MONZO_CLIENT_SECRET environment variables and           *)
(* ~/.go-monzo/config.json (cmd/config.go).                                *)
(***************************************************************************)

\* The zero value of Config (&Config{}).
EmptyConfig == [ClientID |-> "", ClientSecret |-> ""]

\* config.json: absent, present but unreadable (os.ReadFile fails with an
\* error other than not-exist), not JSON, or a JSON object.
NoConfigFile == [kind |-> "absent"]
UnreadableConfigFile == [kind |-> "unreadable"]
InvalidConfigFile == [kind |-> "invalid"]
ConfigFile(id, secret) == [kind |-> "json", ClientID |-> id, ClientSecret |-> secret]

ConfigFiles ==
  {NoConfigFile, UnreadableConfigFile, InvalidConfigFile}
    \cup {ConfigFile(id, secret) : id \in {"", "config_client_id"},
                                   secret \in {"", "config_client_secret"}}

\* What an invocation finds: flag values ("" when the flag is not given),
\* environment variables ("" when unset) and config.json.
Sources ==
  [flagID : {"", "flag_client_id"}, flagSecret : {"", "flag_client_secret"},
   envID : {"", "env_client_id"}, envSecret : {"", "env_client_secret"},
   config : ConfigFiles]

\* LoadConfig: (&Config{}, nil) when the file does not exist, (nil, err) on
\* any other read error and on a decode error, (&config, nil) otherwise.
LoadConfig(c) ==
  IF c.kind = "absent"
    THEN [isNil |-> FALSE, config |-> EmptyConfig, err |-> NoError]
  ELSE IF c.kind = "unreadable"
    THEN [isNil |-> TRUE, config |-> EmptyConfig, err |-> "read error"]
  ELSE IF c.kind = "invalid"
    THEN [isNil |-> TRUE, config |-> EmptyConfig, err |-> "SyntaxError"]
  ELSE [isNil |-> FALSE,
        config |-> [ClientID |-> c.ClientID, ClientSecret |-> c.ClientSecret],
        err |-> NoError]

\* GetClientCredentials consulting the config file only when both values are
\* still empty (&& written for ||).
GetClientCredentialsBothEmpty(flagClientID, flagClientSecret, s) ==
  LET id1 == IF flagClientID = "" THEN s.envID ELSE flagClientID
      secret1 == IF flagClientSecret = "" THEN s.envSecret ELSE flagClientSecret
      r == LoadConfig(s.config)
  IN IF (id1 = "" /\ secret1 = "") /\ r.err = NoError /\ ~r.isNil
       THEN [clientID |-> IF id1 = "" THEN r.config.ClientID ELSE id1,
             clientSecret |-> IF secret1 = "" THEN r.config.ClientSecret ELSE secret1]
       ELSE [clientID |-> id1, clientSecret |-> secret1]

\* GetClientCredentials(flagClientID, flagClientSecret) in the environment
\* and with the config file of s.
GetClientCredentials(flagClientID, flagClientSecret, s) ==
  LET id1 == IF flagClientID = "" THEN s.envID ELSE flagClientID
      secret1 == IF flagClientSecret = "" THEN s.envSecret ELSE flagClientSecret
      r == LoadConfig(s.config)
  IN IF (id1 = "" \/ secret1 = "") /\ r.err = NoError /\ ~r.isNil
       THEN [clientID |-> IF id1 = "" THEN r.config.ClientID ELSE id1,
             clientSecret |-> IF secret1 = "" THEN r.config.ClientSecret ELSE secret1]
       ELSE [clientID |-> id1, clientSecret |-> secret1]

\* The flag variables of the login command: cobra's default for each flag is
\* the environment variable (init in cmd/login.go).
loginFlag(flag, env) == IF flag # "" THEN flag ELSE env

(***************************************************************************)
(* State.                                                                  *)
(***************************************************************************)
VARIABLES
  now,            \* time.Now().Unix()
  file,           \* content of ~/.go-monzo/token.json
  cmd,            \* the accounts/balance/transactions invocation: the file
                  \* before (file0) and after (file1) its loadToken, the
                  \* time of the call, what loadToken returned, the
                  \* requests the command sent and the error it returned
  lpc,            \* position of runLogin
  serving,        \* the callback server accepts requests
  codeChan,       \* head: the buffered value; rest: senders blocked on it
  errChan,        \* the same for errChan
  reqs,           \* /callback requests served in this login attempt
  code,           \* runLogin's local variable code
  ltoken,         \* the token returned by exchangeCodeForToken
  lerr,           \* the error runLogin returns
  outcome,        \* which case of the select was taken
  received,       \* the values runLogin received from the two channels
  produced,       \* sends on codeChan/errChan that completed
  exchangeCalls,  \* POSTs to the token endpoint made by this login
  shutdowns,      \* calls of server.Shutdown in this login
  lwrites,        \* modifications of token.json made by this login
  firstQuery,     \* the query of the first /callback request, if any
  saved,          \* the completed saveToken: its token, its time and the
                  \* content it wrote
  sources,        \* the flags, environment and config.json of the invocations
  resolved,       \* the last call of GetClientCredentials or LoadConfig
  logins,         \* two concurrent login invocations past their select: the
                  \* position, the token and the error of each
  disk,           \* token.json line by line, as their saves leave it
  writeOrder      \* the invocations in the order their writes completed

lvars == <<lpc, serving, codeChan, errChan, reqs, code, ltoken, lerr, outcome,
           received, produced, exchangeCalls, shutdowns, lwrites, firstQuery>>

cvars == <<sources, resolved>>

rvars == <<logins, disk, writeOrder>>

vars == <<now, file, cmd, lpc, serving, codeChan, errChan, reqs, code, ltoken,
          lerr, outcome, received, produced, exchangeCalls, shutdowns,
          lwrites, firstQuery, saved, sources, resolved, logins, disk,
          writeOrder>>

(***************************************************************************)
(* The authenticated commands.  A behaviour holds one invocation of one of *)
(* them (one process), which reads the file once, so it is one step; what  *)
(* earlier invocations left behind is the initial content of the file.     *)
(***************************************************************************)

\* What the API answers to a data-fetch request: 200 with a decodable body,
\* a transport error, a non-200 status, or an undecodable body.
FetchResults == {"ok", "transport error", "API request failed", "failed to decode response"}

AccountIDs == {"", "acc_1"}

NoCommand ==
  [kind |-> "none", file0 |-> Absent, file1 |-> Absent, now0 |-> 0,
   loadCalled |-> FALSE, ok |-> FALSE, token |-> ZeroToken, net |-> << >>,
   err |-> NoError]

\* The shared body with a data-fetch request that is sent once more when it
\* failed.
authCommandRetries(kind, f, t, fetch) ==
  LET r == loadToken(f)
      get == [path |-> kind, bearer |-> r.token.AccessToken]
  IN IF ~r.ok
       THEN [kind |-> kind, file0 |-> f, file1 |-> r.file, now0 |-> t,
             loadCalled |-> TRUE, ok |-> FALSE, token |-> r.token,
             net |-> r.net, err |-> "failed to load token"]
       ELSE [kind |-> kind, file0 |-> f, file1 |-> r.file, now0 |-> t,
             loadCalled |-> TRUE, ok |-> TRUE, token |-> r.token,
             net |-> IF fetch = "ok" THEN Append(r.net, get)
                     ELSE Append(Append(r.net, get), get),
             err |-> IF fetch = "ok" THEN NoError ELSE fetch]

\* The body shared by runAccounts, runBalance and runTransactions: loadToken,
\* return on its error, otherwise one GET bearing token.AccessToken.
authCommand(kind, f, t, fetch) ==
  LET r == loadToken(f)
  IN IF ~r.ok
       THEN [kind |-> kind, file0 |-> f, file1 |-> r.file, now0 |-> t,
             loadCalled |-> TRUE, ok |-> FALSE, token |-> r.token,
             net |-> r.net, err |-> "failed to load token"]
       ELSE [kind |-> kind, file0 |-> f, file1 |-> r.file, now0 |-> t,
             loadCalled |-> TRUE, ok |-> TRUE, token |-> r.token,
             net |-> Append(r.net, [path |-> kind, bearer |-> r.token.AccessToken]),
             err |-> IF fetch = "ok" THEN NoError ELSE fetch]

\* runBalance and runTransactions return before loadToken on an empty
\* account id.
noAccountID(kind, f, t) ==
  [kind |-> kind, file0 |-> f, file1 |-> f, now0 |-> t, loadCalled |-> FALSE,
   ok |-> FALSE, token |-> ZeroToken, net |-> << >>,
   err |-> "account ID is required"]

runAccounts ==
  /\ cmd.kind = "none"
  /\ \E fetch \in FetchResults : cmd' = authCommand("accounts", file, now, fetch)
  /\ file' = loadToken(file).file
  /\ UNCHANGED <<now, saved>>
  /\ UNCHANGED lvars
  /\ UNCHANGED cvars
  /\ UNCHANGED rvars

runBalance ==
  /\ cmd.kind = "none"
  /\ \E accountID \in AccountIDs, fetch \in FetchResults :
       IF accountID = ""
         THEN cmd' = noAccountID("balance", file, now) /\ file' = file
         ELSE /\ cmd' = authCommand("balance", file, now, fetch)
              /\ file' = loadToken(file).file
  /\ UNCHANGED <<now, saved>>
  /\ UNCHANGED lvars
  /\ UNCHANGED cvars
  /\ UNCHANGED rvars

runTransactions ==
  /\ cmd.kind = "none"
  /\ \E txAccountID \in AccountIDs, fetch \in FetchResults :
       IF txAccountID = ""
         THEN cmd' = noAccountID("transactions", file, now) /\ file' = file
         ELSE /\ cmd' = authCommand("transactions", file, now, fetch)
              /\ file' = loadToken(file).file
  /\ UNCHANGED <<now, saved>>
  /\ UNCHANGED lvars
  /\ UNCHANGED cvars
  /\ UNCHANGED rvars

(***************************************************************************)
(* The login command (one invocation per behaviour): runLogin on the main  *)
(* goroutine, the /callback handlers and the serve goroutine of            *)
(* startCallbackServer.                                                    *)
(***************************************************************************)

Query(c, e, d) == [code |-> c, error |-> e, error_description |-> d]

\* Query strings a /callback request can carry: a code, an error with its
\* description, both, neither.
Queries ==
  {Query("c1", "", ""),
   Query("", "access_denied", "User declined"),
   Query("c2", "invalid_request", "bad"),
   Query("", "", "")}

NoQuery == Query("-", "-", "-")

Error(kind, e, d) == [kind |-> kind, error |-> e, description |-> d]

NoErr == Error(NoError, "", "")

\* The handler without its test of an empty code: a request with neither
\* parameter puts the empty code on codeChan.
handlerNoCodeCheck(q) ==
  IF q.error # ""
    THEN [chan |-> "err", code |-> "",
          err |-> Error("callback error", q.error, q.error_description)]
  ELSE [chan |-> "code", code |-> q.code, err |-> NoErr]

\* The handler testing the code before the error parameter.
handlerCodeFirst(q) ==
  IF q.code # ""
    THEN [chan |-> "code", code |-> q.code, err |-> NoErr]
  ELSE IF q.error # ""
    THEN [chan |-> "err", code |-> "",
          err |-> Error("callback error", q.error, q.error_description)]
  ELSE [chan |-> "err", code |-> "",
        err |-> Error("no authorization code received", "", "")]

\* The /callback handler: which channel it sends on, and what.
handler(q) ==
  IF q.error # ""
    THEN [chan |-> "err", code |-> "",
          err |-> Error("callback error", q.error, q.error_description)]
  ELSE IF q.code = ""
    THEN [chan |-> "err", code |-> "",
          err |-> Error("no authorization code received", "", "")]
  ELSE [chan |-> "code", code |-> q.code, err |-> NoErr]

\* The value the serve goroutine sends when server.Serve fails.
serveFailure ==
  [chan |-> "err", code |-> "", err |-> Error("serve error", "", "")]

\* return fmt.Errorf("authorization failed: %w", err)
authorizationFailed(e) == Error("authorization failed", e.error, e.description)

\* Results of the POST made by exchangeCodeForToken.
ExchangeFailures ==
  {"transport error", "token exchange failed", "failed to decode token response"}

\* The shutdown called on the success path only, not deferred.
shutdownOnSuccessOnly(err) == err = NoErr

\* The deferred function of runLogin runs server.Shutdown on every return
\* that follows a successful startCallbackServer, whatever the error.
deferredShutdown(err) == TRUE

\* A send on a channel of capacity 1 by a handler or by the serve goroutine.
\* A receiver parked in the select takes the value at once; otherwise the
\* value is buffered, or the sender blocks behind the buffered one.
send(h) ==
  IF lpc = "waiting"
    THEN /\ received' = Append(received, h)
         /\ produced' = produced + 1
         /\ IF h.chan = "code"
              THEN /\ code' = h.code
                   /\ outcome' = "code"
                   /\ lpc' = "exchange"
                   /\ lerr' = lerr
              ELSE /\ lerr' = authorizationFailed(h.err)
                   /\ outcome' = "error"
                   /\ lpc' = "returning"
                   /\ code' = code
         /\ UNCHANGED <<codeChan, errChan>>
    ELSE /\ IF h.chan = "code"
              THEN /\ codeChan' = Append(codeChan, h.code)
                   /\ produced' = IF codeChan = << >> THEN produced + 1 ELSE produced
                   /\ errChan' = errChan
              ELSE /\ errChan' = Append(errChan, h.err)
                   /\ produced' = IF errChan = << >> THEN produced + 1 ELSE produced
                   /\ codeChan' = codeChan
         /\ UNCHANGED <<received, code, outcome, lpc, lerr>>

\* runLogin up to the return of startCallbackServer: the two credential
\* checks, make(chan, 1) twice, net.Listen, go server.Serve.
LoginStart ==
  /\ lpc = "idle"
  /\ \E bound \in BOOLEAN :
       LET clientID == loginFlag(sources.flagID, sources.envID)
           clientSecret == loginFlag(sources.flagSecret, sources.envSecret)
       IN
       /\ lerr' = IF clientID = "" THEN Error("client ID is required", "", "")
                  ELSE IF clientSecret = "" THEN Error("client secret is required", "", "")
                  ELSE IF ~bound THEN Error("failed to start local server", "", "")
                  ELSE NoErr
       /\ lpc' = IF clientID # "" /\ clientSecret # "" /\ bound THEN "listening" ELSE "done"
       /\ serving' = (clientID # "" /\ clientSecret # "" /\ bound)
  /\ codeChan' = << >>
  /\ errChan' = << >>
  /\ UNCHANGED <<now, file, cmd, saved, reqs, code, ltoken, outcome, received,
                 produced, exchangeCalls, shutdowns, lwrites, firstQuery>>
  /\ UNCHANGED cvars
  /\ UNCHANGED rvars

\* One GET /callback served by the handler of startCallbackServer.
CallbackRequest ==
  /\ serving
  /\ reqs < MaxRequests
  /\ \E q \in Queries :
       /\ send(handler(q))
       /\ firstQuery' = IF reqs = 0 THEN q ELSE firstQuery
  /\ reqs' = reqs + 1
  /\ UNCHANGED <<now, file, cmd, saved, serving, ltoken, exchangeCalls,
                 shutdowns, lwrites>>
  /\ UNCHANGED cvars
  /\ UNCHANGED rvars

\* server.Serve returns an error other than ErrServerClosed: the serve
\* goroutine sends it on errChan and the server accepts nothing more.
ServeError ==
  /\ serving
  /\ send(serveFailure)
  /\ serving' = FALSE
  /\ UNCHANGED <<now, file, cmd, saved, reqs, ltoken, exchangeCalls,
                 shutdowns, lwrites, firstQuery>>
  /\ UNCHANGED cvars
  /\ UNCHANGED rvars

\* runLogin reaches the select (after buildAuthURL and openBrowser): a
\* channel that already holds a value is received from, one of them chosen
\* when both do; with both empty the goroutine parks.
LoginSelect ==
  /\ lpc = "listening"
  /\ \/ /\ codeChan # << >>
        /\ code' = Head(codeChan)
        /\ codeChan' = Tail(codeChan)
        /\ produced' = IF Len(codeChan) > 1 THEN produced + 1 ELSE produced
        /\ received' = Append(received, [chan |-> "code", code |-> Head(codeChan), err |-> NoErr])
        /\ outcome' = "code"
        /\ lpc' = "exchange"
        /\ UNCHANGED <<errChan, lerr>>
     \/ /\ errChan # << >>
        /\ lerr' = authorizationFailed(Head(errChan))
        /\ errChan' = Tail(errChan)
        /\ produced' = IF Len(errChan) > 1 THEN produced + 1 ELSE produced
        /\ received' = Append(received, [chan |-> "err", code |-> "", err |-> Head(errChan)])
        /\ outcome' = "error"
        /\ lpc' = "returning"
        /\ UNCHANGED <<codeChan, code>>
     \/ /\ codeChan = << >>
        /\ errChan = << >>
        /\ lpc' = "waiting"
        /\ UNCHANGED <<codeChan, errChan, code, lerr, produced, received, outcome>>
  /\ UNCHANGED <<now, file, cmd, saved, serving, reqs, ltoken, exchangeCalls,
                 shutdowns, lwrites, firstQuery>>
  /\ UNCHANGED cvars
  /\ UNCHANGED rvars

\* A timer that is not tied to the select: it fires although the wait has
\* resolved with a code, and makes runLogin return the timeout.
LoginTimeoutUnstopped ==
  /\ lpc \in {"waiting", "exchange"}
  /\ outcome' = "timeout"
  /\ lerr' = Error("authorization timed out", "", "")
  /\ lpc' = "returning"
  /\ UNCHANGED <<now, file, cmd, saved, serving, codeChan, errChan, reqs, code,
                 ltoken, received, produced, exchangeCalls, shutdowns, lwrites,
                 firstQuery>>
  /\ UNCHANGED cvars
  /\ UNCHANGED rvars

\* case <-time.After(authTimeout)
LoginTimeout ==
  /\ lpc = "waiting"
  /\ outcome' = "timeout"
  /\ lerr' = Error("authorization timed out", "", "")
  /\ lpc' = "returning"
  /\ UNCHANGED <<now, file, cmd, saved, serving, codeChan, errChan, reqs, code,
                 ltoken, received, produced, exchangeCalls, shutdowns, lwrites,
                 firstQuery>>
  /\ UNCHANGED cvars
  /\ UNCHANGED rvars

\* A token exchange without tokenExchangeTimeout whose request never
\* completes.
LoginExchangeHangs ==
  /\ lpc = "exchange"
  /\ UNCHANGED vars

\* exchangeCodeForToken: one POST to the token endpoint.
LoginExchange ==
  /\ lpc = "exchange"
  /\ exchangeCalls' = exchangeCalls + 1
  /\ \/ \E f \in ExchangeFailures :
          /\ lerr' = Error("failed to exchange code for token", f, "")
          /\ lpc' = "returning"
          /\ ltoken' = ltoken
     \/ \E t \in TokenResponse :
          /\ ltoken' = t
          /\ lpc' = "save"
          /\ lerr' = lerr
  /\ UNCHANGED <<now, file, cmd, saved, serving, codeChan, errChan, reqs, code,
                 outcome, received, produced, shutdowns, lwrites, firstQuery>>
  /\ UNCHANGED cvars
  /\ UNCHANGED rvars

\* A saveToken that removes token.json before it writes the new one.
LoginSaveOpenRemoves ==
  /\ lpc = "save"
  /\ \/ /\ lerr' = Error("failed to save token", "", "")
        /\ lpc' = "returning"
        /\ UNCHANGED <<file, lwrites>>
     \/ /\ file' = Absent
        /\ lwrites' = lwrites + 1
        /\ lpc' = "writing"
        /\ lerr' = lerr
  /\ UNCHANGED <<now, cmd, saved, serving, codeChan, errChan, reqs, code, ltoken,
                 outcome, received, produced, exchangeCalls, shutdowns, firstQuery>>
  /\ UNCHANGED cvars
  /\ UNCHANGED rvars

\* saveToken up to the open inside os.WriteFile: getConfigDir, MkdirAll or
\* the open fails and nothing is touched, or the file is created/truncated.
LoginSaveOpen ==
  /\ lpc = "save"
  /\ \/ /\ lerr' = Error("failed to save token", "", "")
        /\ lpc' = "returning"
        /\ UNCHANGED <<file, lwrites>>
     \/ /\ file' = Corrupt
        /\ lwrites' = lwrites + 1
        /\ lpc' = "writing"
        /\ lerr' = lerr
  /\ UNCHANGED <<now, cmd, saved, serving, codeChan, errChan, reqs, code, ltoken,
                 outcome, received, produced, exchangeCalls, shutdowns, firstQuery>>
  /\ UNCHANGED cvars
  /\ UNCHANGED rvars

\* The write inside os.WriteFile: the encoded token reaches the file, or
\* the write fails and the file stays as truncated.
LoginSaveWrite ==
  /\ lpc = "writing"
  /\ \/ /\ file' = saveToken(ltoken)
        /\ saved' = [valid |-> TRUE, token |-> ltoken, at |-> now,
                   content |-> saveToken(ltoken)]
        /\ lwrites' = lwrites + 1
        /\ lpc' = "returning"
        /\ lerr' = lerr
     \/ /\ lerr' = Error("failed to save token", "", "")
        /\ lpc' = "returning"
        /\ UNCHANGED <<file, saved, lwrites>>
  /\ UNCHANGED <<now, cmd, serving, codeChan, errChan, reqs, code, ltoken,
                 outcome, received, produced, exchangeCalls, shutdowns, firstQuery>>
  /\ UNCHANGED cvars
  /\ UNCHANGED rvars

\* runLogin returns: the deferred function runs, then the process ends.
LoginReturn ==
  /\ lpc = "returning"
  /\ IF deferredShutdown(lerr)
       THEN serving' = FALSE /\ shutdowns' = shutdowns + 1
       ELSE UNCHANGED <<serving, shutdowns>>
  /\ lpc' = "done"
  /\ UNCHANGED <<now, file, cmd, saved, codeChan, errChan, reqs, code, ltoken,
                 lerr, outcome, received, produced, exchangeCalls, lwrites,
                 firstQuery>>
  /\ UNCHANGED cvars
  /\ UNCHANGED rvars

\* The wall clock advances.
Tick ==
  /\ now < MaxTime
  /\ now' = now + 1
  /\ UNCHANGED <<file, cmd, saved>>
  /\ UNCHANGED lvars
  /\ UNCHANGED cvars
  /\ UNCHANGED rvars

\* A call of GetClientCredentials with the flag values of the invocation.
CallGetClientCredentials ==
  /\ lpc = "idle"
  /\ LET r == GetClientCredentials(sources.flagID, sources.flagSecret, sources)
     IN resolved' = [op |-> "GetClientCredentials", clientID |-> r.clientID,
                     clientSecret |-> r.clientSecret, isNil |-> FALSE,
                     config |-> EmptyConfig, err |-> NoError]
  /\ UNCHANGED <<now, file, cmd, saved, sources>>
  /\ UNCHANGED lvars
  /\ UNCHANGED rvars

\* A call of LoadConfig.
CallLoadConfig ==
  /\ lpc = "idle"
  /\ LET r == LoadConfig(sources.config)
     IN resolved' = [op |-> "LoadConfig", clientID |-> "", clientSecret |-> "",
                     isNil |-> r.isNil, config |-> r.config, err |-> r.err]
  /\ UNCHANGED <<now, file, cmd, saved, sources>>
  /\ UNCHANGED lvars
  /\ UNCHANGED rvars

NotResolved ==
  [op |-> "none", clientID |-> "", clientSecret |-> "", isNil |-> FALSE,
   config |-> EmptyConfig, err |-> NoError]

\* The invocations of the full model: both flags given, only the client-id
\* flag given, and the credentials in config.json only.
MainSources ==
  {[flagID |-> "flag_client_id", flagSecret |-> "flag_client_secret",
    envID |-> "", envSecret |-> "", config |-> NoConfigFile],
   [flagID |-> "flag_client_id", flagSecret |-> "",
    envID |-> "", envSecret |-> "", config |-> NoConfigFile],
   [flagID |-> "", flagSecret |-> "", envID |-> "", envSecret |-> "",
    config |-> ConfigFile("config_client_id", "config_client_secret")]}

\* token.json line by line: json.MarshalIndent puts the opening brace, each
\* key with its value, and the closing brace on a line of its own.
Lines(token) ==
  LET obj == Marshal(token)
      fields == <<"access_token", "token_type", "expires_in", "refresh_token",
                  "scope", "user_id">>
      present == SelectSeq(fields, LAMBDA k : k \in DOMAIN obj)
  IN <<(<<"{", "">>)>>
       \o [i \in 1..Len(present) |-> <<present[i], ToString(obj[present[i]])>>]
       \o <<(<<"}", "">>)>>

NoDisk == [exists |-> FALSE, lines |-> << >>]
OnDisk(lines) == [exists |-> TRUE, lines |-> lines]

\* A write of new at offset 0 of a file holding old: it replaces the lines
\* it covers and leaves what lies beyond them.
Overlay(old, new) ==
  [i \in 1..(IF Len(old) > Len(new) THEN Len(old) ELSE Len(new)) |->
     IF i <= Len(new) THEN new[i] ELSE old[i]]

\* What a reader of token.json finds: the file decodes when it is the
\* complete output of one json.MarshalIndent; the empty file and a complete
\* output followed by further lines do not decode.
fileOf(d) ==
  IF ~d.exists THEN Absent
  ELSE IF \E t \in TokenResponse : d.lines = Lines(t)
    THEN saveToken(CHOOSE t \in TokenResponse : d.lines = Lines(t))
  ELSE Corrupt

\* The two invocations.
Logins == 1..2

NoLogins == [p \in Logins |-> [pc |-> "idle", token |-> ZeroToken, err |-> NoError]]

\* Invocation p: exchangeCodeForToken after its select received a code.
exchangeCodeForToken(p) ==
  /\ logins[p].pc = "exchange"
  /\ \/ \E f \in ExchangeFailures :
          logins' = [logins EXCEPT ![p] = [pc |-> "done", token |-> ZeroToken,
                                           err |-> "failed to exchange code for token"]]
     \/ \E t \in TokenResponse :
          logins' = [logins EXCEPT ![p] = [pc |-> "save", token |-> t,
                                           err |-> NoError]]
  /\ UNCHANGED <<now, file, cmd, saved, disk, writeOrder>>
  /\ UNCHANGED lvars
  /\ UNCHANGED cvars

\* Invocation p: saveToken up to the open inside os.WriteFile
\* (O_WRONLY|O_CREATE|O_TRUNC): it fails and touches nothing, or the file is
\* created or truncated and p holds a descriptor at offset 0.
saveTokenOpen(p) ==
  /\ logins[p].pc = "save"
  /\ \/ /\ logins' = [logins EXCEPT ![p].pc = "done",
                                     ![p].err = "failed to save token"]
        /\ UNCHANGED <<disk, file>>
     \/ /\ disk' = OnDisk(<< >>)
        /\ file' = fileOf(disk')
        /\ logins' = [logins EXCEPT ![p].pc = "writing"]
  /\ UNCHANGED <<now, cmd, saved, writeOrder>>
  /\ UNCHANGED lvars
  /\ UNCHANGED cvars

\* Invocation p: the write inside os.WriteFile, at p's own offset 0, and the
\* return of runLogin; or the write fails and the file stays as it is.
saveTokenWrite(p) ==
  /\ logins[p].pc = "writing"
  /\ \/ /\ disk' = OnDisk(Overlay(disk.lines, Lines(logins[p].token)))
        /\ file' = fileOf(disk')
        /\ writeOrder' = Append(writeOrder, p)
        /\ logins' = [logins EXCEPT ![p].pc = "done"]
     \/ /\ logins' = [logins EXCEPT ![p].pc = "done",
                                     ![p].err = "failed to save token"]
        /\ UNCHANGED <<disk, file, writeOrder>>
  /\ UNCHANGED <<now, cmd, saved>>
  /\ UNCHANGED lvars
  /\ UNCHANGED cvars

InitCommon ==
  /\ now = 0
  /\ cmd = NoCommand
  /\ lpc = "idle"
  /\ serving = FALSE
  /\ codeChan = << >>
  /\ errChan = << >>
  /\ reqs = 0
  /\ code = ""
  /\ ltoken = ZeroToken
  /\ lerr = NoErr
  /\ outcome = "none"
  /\ received = << >>
  /\ produced = 0
  /\ exchangeCalls = 0
  /\ shutdowns = 0
  /\ lwrites = 0
  /\ firstQuery = NoQuery
  /\ saved = [valid |-> FALSE, token |-> ZeroToken, at |-> 0, content |-> Absent]
  /\ resolved = NotResolved

InitProgram ==
  /\ InitCommon
  /\ file \in InitialFiles
  /\ logins = NoLogins
  /\ disk = NoDisk
  /\ writeOrder = << >>

Init ==
  /\ InitProgram
  /\ sources \in MainSources

Next ==
  \/ runAccounts
  \/ runBalance
  \/ runTransactions
  \/ LoginStart
  \/ CallbackRequest
  \/ ServeError
  \/ LoginSelect
  \/ LoginTimeout
  \/ LoginExchange
  \/ LoginSaveOpen
  \/ LoginSaveWrite
  \/ LoginReturn
  \/ Tick

Spec == Init /\ [][Next]_vars

\* One login on its own.  runLogin's goroutine is scheduled, its timer
\* fires, the token exchange is bounded by tokenExchangeTimeout and the
\* shutdown by serverShutdownTimeout, so each of its steps is taken once it
\* stays enabled; the browser and the listener owe nothing.
NextLogin ==
  \/ LoginStart
  \/ CallbackRequest
  \/ ServeError
  \/ LoginSelect
  \/ LoginTimeout
  \/ LoginExchange
  \/ LoginSaveOpen
  \/ LoginSaveWrite
  \/ LoginReturn

SpecLoginFair ==
  /\ Init
  /\ [][NextLogin]_vars
  /\ WF_vars(LoginSelect)
  /\ WF_vars(LoginTimeout)
  /\ WF_vars(LoginExchange)
  /\ WF_vars(LoginSaveOpen)
  /\ WF_vars(LoginSaveWrite)
  /\ WF_vars(LoginReturn)

\* The credential resolution for every combination of the sources.
InitCredentials ==
  /\ InitProgram
  /\ sources \in Sources

NextCredentials ==
  \/ CallGetClientCredentials
  \/ CallLoadConfig
  \/ LoginStart

SpecCredentials == InitCredentials /\ [][NextCredentials]_vars

\* Two login invocations at once, each from the moment its select received
\* a code, over a token.json that is absent or holds an earlier credential.
InitConcurrent ==
  /\ InitCommon
  /\ sources \in {s \in MainSources : s.flagID # "" /\ s.flagSecret # ""}
  /\ disk \in {NoDisk} \cup {OnDisk(Lines(t)) : t \in TokenResponse}
  /\ file = fileOf(disk)
  /\ logins = [p \in Logins |-> [pc |-> "exchange", token |-> ZeroToken,
                                  err |-> NoError]]
  /\ writeOrder = << >>

NextConcurrent ==
  \E p \in Logins :
    \/ exchangeCodeForToken(p)
    \/ saveTokenOpen(p)
    \/ saveTokenWrite(p)

SpecConcurrent == InitConcurrent /\ [][NextConcurrent]_vars

(***************************************************************************)
(* Properties of the session loader and the credential store.              *)
(***************************************************************************)

HasExpiry(f) == f.kind = "json" /\ "expires_at" \in DOMAIN f.obj

\* The object of a stored record without its expires_at key.
Credential(obj) == [k \in (DOMAIN obj) \ {"expires_at"} |-> obj[k]]

StoredRefreshToken(f) ==
  IF "refresh_token" \in DOMAIN f.obj THEN f.obj.refresh_token ELSE ""

TokenRequests(net) == {i \in 1..Len(net) : net[i].path = "oauth2/token"}

\* C1: a command whose loadToken runs on a stored credential with expires_at
\* in the future gets exactly the stored credential (its re-encoding is the
\* stored record less expires_at), sends nothing but its own data-fetch
\* request, and leaves token.json as it was.
C1_ValidCredentialReturned ==
  (cmd.loadCalled /\ HasExpiry(cmd.file0) /\ cmd.file0.obj.expires_at > cmd.now0)
    => /\ cmd.ok
       /\ Marshal(cmd.token) = Credential(cmd.file0.obj)
       /\ Len(cmd.net) = 1
       /\ cmd.net[1] = [path |-> cmd.kind, bearer |-> cmd.file0.obj.access_token]
       /\ cmd.file1 = cmd.file0

C1_Witness ==
  /\ cmd.loadCalled
  /\ HasExpiry(cmd.file0)
  /\ cmd.file0.obj.expires_at > cmd.now0
  /\ StoredRefreshToken(cmd.file0) # ""
  /\ cmd.ok

\* C2: a loadToken that succeeds on a stored credential with expires_at in
\* the past and a non-empty refresh token has made exactly one refresh
\* request, has written the refreshed credential with expires_at = call time
\* + returned lifetime, and returns that credential, not the expired one.
C2_ExpiredCredentialRefreshed ==
  (/\ cmd.loadCalled
   /\ HasExpiry(cmd.file0)
   /\ cmd.file0.obj.expires_at < cmd.now0
   /\ StoredRefreshToken(cmd.file0) # ""
   /\ cmd.ok)
    => /\ Cardinality(TokenRequests(cmd.net)) = 1
       /\ HasExpiry(cmd.file1)
       /\ cmd.file1.obj.expires_at = cmd.now0 + cmd.token.ExpiresIn
       /\ Marshal(cmd.token) = Credential(cmd.file1.obj)
       /\ cmd.file1 # cmd.file0

\* C3: loadToken on a stored credential with expires_at in the past and an
\* empty refresh token fails, and the command sends no request at all.
C3_ExpiredNoRefreshFails ==
  (/\ cmd.loadCalled
   /\ HasExpiry(cmd.file0)
   /\ cmd.file0.obj.expires_at < cmd.now0
   /\ StoredRefreshToken(cmd.file0) = "")
    => /\ ~cmd.ok
       /\ cmd.err # NoError
       /\ cmd.net = << >>

\* C4: the content written by a completed saveToken carries expires_at,
\* equal to the time of the save plus the expires_in of the saved token.
C4_SavedRecordCarriesExpiry ==
  saved.valid
    => /\ HasExpiry(saved.content)
       /\ saved.content.obj.expires_at = saved.at + saved.token.ExpiresIn
       /\ saved.content.obj.expires_at # 0

\* C5: loadToken on the content a saveToken wrote, before its expiry,
\* returns the six saved fields, and the record read carries the expires_at
\* computed at save time.
C5_SaveLoadRoundTrip ==
  (/\ saved.valid
   /\ cmd.loadCalled
   /\ cmd.file0 = saved.content
   /\ cmd.now0 >= saved.at
   /\ cmd.now0 < saved.at + saved.token.ExpiresIn)
    => /\ cmd.ok
       /\ cmd.token = saved.token
       /\ HasExpiry(cmd.file0)
       /\ cmd.file0.obj.expires_at = saved.at + saved.token.ExpiresIn

\* C6: on an absent file and on undecodable content loadToken returns an
\* error and no credential, the command sends no request and token.json is
\* left as it was.
C6_MissingOrCorruptFails ==
  (cmd.loadCalled /\ cmd.file0.kind \in {"absent", "corrupt"})
    => /\ ~cmd.ok
       /\ cmd.token = ZeroToken
       /\ cmd.err # NoError
       /\ cmd.net = << >>
       /\ cmd.file1 = cmd.file0

C6_Witness ==
  /\ cmd.loadCalled
  /\ cmd.file0.kind = "corrupt"
  /\ cmd.err = "failed to load token"

(***************************************************************************)
(* Properties of the login command.                                        *)
(***************************************************************************)

\* startCallbackServer returned a server: runLogin got past its three early
\* returns.
ListenerStarted ==
  /\ lpc # "idle"
  /\ lerr.kind \notin {"client ID is required", "client secret is required",
                       "failed to start local server"}

\* The select of runLogin has resolved.
Resolved == outcome # "none"

\* C7: during one login attempt at most one send on codeChan or errChan
\* completes, however many /callback requests are served.
C7_AtMostOneResult == produced <= 1

\* The outcome of the wait is one of code, error, timeout, reached by at most
\* one receive, and only a received code leads to a token exchange or to a
\* write of token.json.
C8_Outcome ==
  /\ outcome \in {"none", "code", "error", "timeout"}
  /\ Len(received) <= 1
  /\ (outcome = "code") <=> (Len(received) = 1 /\ received[1].chan = "code")
  /\ (outcome = "error") <=> (Len(received) = 1 /\ received[1].chan = "err")
  /\ (outcome = "code") => (code = received[1].code)
  /\ lpc \in {"exchange", "save", "writing"} => outcome = "code"
  /\ exchangeCalls <= 1
  /\ (exchangeCalls > 0 \/ lwrites > 0) => outcome = "code"

\* C8: the wait of runLogin resolves with exactly one of code, error,
\* timeout; once it has resolved, the outcome, the received value and the
\* code never change whatever arrives on the channels later, and a later
\* value starts no token exchange and causes no write of token.json.
C8_SelectResolvesOnce ==
  /\ []C8_Outcome
  /\ [][Resolved => /\ outcome' = outcome
                    /\ received' = received
                    /\ code' = code]_vars

\* The wait resolved with an error, a code arrived on the other channel, and
\* runLogin returned without a token exchange.
C8_Witness ==
  /\ lpc = "done"
  /\ outcome = "error"
  /\ codeChan # << >>
  /\ exchangeCalls = 0

\* C9: once the listener was started, server.Shutdown is called exactly once
\* by the time runLogin has returned, and not before it returns; without a
\* listener it is not called.
C9_ShutdownExactlyOnce ==
  /\ shutdowns <= 1
  /\ (lpc = "done" /\ ListenerStarted) => (shutdowns = 1 /\ ~serving)
  /\ (lpc # "done" \/ ~ListenerStarted) => shutdowns = 0

\* runLogin returned after a failed save, with the listener shut down.
C9_Witness ==
  /\ lpc = "done"
  /\ lerr.kind = "failed to save token"
  /\ shutdowns = 1

\* C10: when the first /callback request carries an error parameter, no
\* token exchange is made and token.json is not written, and login, unless
\* it had timed out before, fails with the authorization error carrying the
\* error and the error_description of that request.
C10_FirstCallbackError ==
  (lpc = "done" /\ firstQuery # NoQuery /\ firstQuery.error # "")
    => /\ exchangeCalls = 0
       /\ lwrites = 0
       /\ (outcome # "timeout" =>
             lerr = Error("authorization failed", firstQuery.error,
                          firstQuery.error_description))

\* runLogin returned after a wait during which no /callback request arrived.
NoCallbackArrived == lpc = "done" /\ ListenerStarted /\ reqs = 0

\* The serve goroutine reported a failure of server.Serve to runLogin.
ServeFailed ==
  \E i \in 1..Len(received) : received[i].err.kind = "serve error"

\* C11 as stated: whenever no /callback request arrived, login fails with the
\* timeout error, having made no token exchange and no write of token.json.
C11_NoCallbackTimesOut ==
  NoCallbackArrived
    => /\ lerr = Error("authorization timed out", "", "")
       /\ exchangeCalls = 0
       /\ lwrites = 0

\* C11: every login that was started returns; when no /callback request
\* arrived it has made no token exchange and no write of token.json, and it
\* fails with the timeout error unless server.Serve failed, in which case it
\* fails with the authorization error carrying the serve failure.
C11_LoginReturns ==
  /\ (lpc # "idle") ~> (lpc = "done")
  /\ [](NoCallbackArrived
          => /\ exchangeCalls = 0
             /\ lwrites = 0
             /\ IF ServeFailed
                  THEN lerr = authorizationFailed(serveFailure.err)
                  ELSE /\ outcome = "timeout"
                       /\ lerr = Error("authorization timed out", "", ""))

\* runLogin returned the timeout after a wait without any /callback request.
C11_Witness ==
  /\ NoCallbackArrived
  /\ outcome = "timeout"
  /\ shutdowns = 1

\* runLogin is past buildAuthURL and the printing/opening of the URL.
URLShown == lpc = "waiting" \/ outcome # "none"

\* The order of the login steps.
LoginStepsOrdered ==
  /\ URLShown => ListenerStarted
  /\ exchangeCalls > 0
       => /\ outcome = "code"
          /\ \E i \in 1..Len(received) :
               received[i].chan = "code" /\ received[i].code = code
  /\ lwrites > 0 => (exchangeCalls = 1 /\ ltoken \in TokenResponse)

\* C12: the listener is bound before the authorization URL is shown, the
\* token exchange is made only after a code was received, token.json is
\* written only after the exchange succeeded, and a login that returned an
\* error has not modified token.json.
C12_OrderedAndFailureKeepsFile ==
  /\ LoginStepsOrdered
  /\ (lpc = "done" /\ lerr # NoErr) => lwrites = 0

\* C13: a command sends a request only after its loadToken succeeded, sends
\* none when loadToken failed, and loadToken has evaluated the expiry before
\* the access token is sent: no request bears the access token of a stored
\* credential whose expires_at has passed.
C13_LoaderBeforeRequest ==
  /\ cmd.net # << >> => (cmd.loadCalled /\ cmd.ok)
  /\ (cmd.loadCalled /\ ~cmd.ok) => cmd.net = << >>
  /\ (cmd.loadCalled /\ HasExpiry(cmd.file0) /\ cmd.file0.obj.expires_at < cmd.now0)
       => \A i \in 1..Len(cmd.net) :
            cmd.net[i].bearer # cmd.file0.obj.access_token

\* C14: one command sends its data-fetch request at most once and no refresh
\* request more than once, one login sends the token exchange at most once;
\* a failed data fetch makes the command fail with that error after its one
\* request, and a failed exchange makes login fail with that error without
\* another request and without a write.
C14_NoRetry ==
  /\ exchangeCalls <= 1
  /\ Cardinality(TokenRequests(cmd.net)) <= 1
  /\ Cardinality({i \in 1..Len(cmd.net) : cmd.net[i].path = cmd.kind}) <= 1
  /\ (cmd.ok /\ cmd.err # NoError)
       => /\ cmd.err \in FetchResults \ {"ok"}
          /\ Len(cmd.net) = 1
  /\ (cmd.loadCalled /\ ~cmd.ok)
       => (cmd.err = "failed to load token" /\ cmd.net = << >>)
  /\ lerr.kind = "failed to exchange code for token"
       => /\ lerr.error \in ExchangeFailures
          /\ exchangeCalls = 1
          /\ lwrites = 0
          /\ lpc \in {"returning", "done"}

\* A command failed on a non-200 answer to its one request, and login
\* returned after a failed token exchange.
C14_Witness ==
  /\ cmd.err = "API request failed"
  /\ Len(cmd.net) = 1
  /\ lpc = "done"
  /\ lerr.kind = "failed to exchange code for token"
  /\ exchangeCalls = 1

\* What config.json supplies for a field: the value of its key when the file
\* is a JSON object, nothing otherwise.
ConfigValue(c, field) == IF c.kind = "json" THEN c[field] ELSE ""

\* The value of the highest-priority source in which it is non-empty, and
\* empty when it is empty in all three.
HighestPriority(flag, env, config) ==
  IF flag # "" THEN flag ELSE IF env # "" THEN env ELSE config

\* C15: GetClientCredentials returns, for the client id and for the client
\* secret separately, the flag value if non-empty, else the environment
\* variable if non-empty, else the value of the config file.
C15_PriorityPerField ==
  resolved.op = "GetClientCredentials"
    => /\ resolved.clientID =
            HighestPriority(sources.flagID, sources.envID,
                            ConfigValue(sources.config, "ClientID"))
       /\ resolved.clientSecret =
            HighestPriority(sources.flagSecret, sources.envSecret,
                            ConfigValue(sources.config, "ClientSecret"))

\* The client id came from the environment and the client secret from the
\* config file, which also holds a client id.
C15_Witness ==
  /\ resolved.op = "GetClientCredentials"
  /\ sources.flagID = ""
  /\ sources.flagSecret = ""
  /\ sources.envSecret = ""
  /\ sources.config = ConfigFile("config_client_id", "config_client_secret")
  /\ resolved.clientID = "env_client_id"
  /\ resolved.clientSecret = "config_client_secret"

\* No client id or no client secret is available to a command without
\* credential flags: neither from the environment nor from config.json.
NoClientCredentials ==
  LET c == GetClientCredentials("", "", sources)
  IN c.clientID = "" \/ c.clientSecret = ""

\* C16: loadToken on a stored credential with expires_at in the past and a
\* non-empty refresh token, when no client id or client secret is available
\* from the environment or the config file, returns an error, makes no
\* refresh request and leaves token.json unchanged.
C16_ExpiredNoClientCredentialsFails ==
  (/\ cmd.loadCalled
   /\ HasExpiry(cmd.file0)
   /\ cmd.file0.obj.expires_at < cmd.now0
   /\ StoredRefreshToken(cmd.file0) # ""
   /\ NoClientCredentials)
    => /\ ~cmd.ok
       /\ cmd.err # NoError
       /\ TokenRequests(cmd.net) = {}
       /\ cmd.file1 = cmd.file0

\* C17: when loadToken succeeds on an expired credential with a refresh
\* token, which it can only do by a successful refresh, the record in
\* token.json afterwards has the refresh token of the response, or the one
\* stored before when the response has none, and every other field as in
\* the response.
C17_RefreshTokenKeptOrReplaced ==
  (/\ cmd.loadCalled
   /\ HasExpiry(cmd.file0)
   /\ cmd.file0.obj.expires_at < cmd.now0
   /\ StoredRefreshToken(cmd.file0) # ""
   /\ cmd.ok)
    => \E i \in TokenRequests(cmd.net) :
         LET response == cmd.net[i].response
         IN /\ cmd.file1.kind = "json"
            /\ StoredRefreshToken(cmd.file1) =
                 IF response.RefreshToken = ""
                   THEN StoredRefreshToken(cmd.file0)
                   ELSE response.RefreshToken
            /\ \A k \in (DOMAIN Marshal(response)) \ {"refresh_token"} :
                 /\ k \in DOMAIN cmd.file1.obj
                 /\ cmd.file1.obj[k] = Marshal(response)[k]

\* The stored record is past its expires_at at time t (a record without
\* expires_at, or an undecodable or absent file, is not a valid credential).
NotValidAt(f, t) == ~(HasExpiry(f) /\ f.obj.expires_at >= t)

C19_LoadConfigEmptyWhenUnreadable ==
  (resolved.op = "LoadConfig" /\ sources.config.kind \in {"absent", "unreadable"})
    => /\ resolved.err = NoError
       /\ ~resolved.isNil
       /\ resolved.config = EmptyConfig

\* runLogin returned one of its missing-credentials errors.
ConfigMissing ==
  lerr.kind \in {"client ID is required", "client secret is required"}

\* A value is available from none of flag, environment and config file.
AvailableNowhere(flag, env, field) ==
  HighestPriority(flag, env, ConfigValue(sources.config, field)) = ""

\* C20: a started login has failed with a missing-credentials error exactly
\* when the client id or the client secret is available from none of flag,
\* environment variable and config file; with both available, be it from
\* the config file only, it went on to start the listener.
C20_ConfigMissingIffNoSource ==
  lpc # "idle"
    => (ConfigMissing
          <=> \/ AvailableNowhere(sources.flagID, sources.envID, "ClientID")
              \/ AvailableNowhere(sources.flagSecret, sources.envSecret,
                                  "ClientSecret"))

\* Senders blocked on a channel: those behind the one buffered value.
Blocked(chan) == IF Len(chan) > 1 THEN Len(chan) - 1 ELSE 0

\* C21: when runLogin has returned, no /callback handler and no serve
\* goroutine is blocked in a send on codeChan or errChan.
C21_NoProducerBlocked ==
  lpc = "done" => (Blocked(codeChan) = 0 /\ Blocked(errChan) = 0)

\* errChan <- fmt.Errorf("no authorization code received")
NoCodeSignal == Error("no authorization code received", "", "")

\* The step is the first /callback request, and has neither parameter.  (A
\* request that finds runLogin parked in the select is always the first: an
\* earlier one would have left a value for the select to take.)
FirstRequestEmpty ==
  /\ reqs = 0
  /\ reqs' = 1
  /\ firstQuery'.code = ""
  /\ firstQuery'.error = ""

\* C22: the handler answers a request with neither code nor error by the
\* no-authorization-code error on errChan and puts nothing on codeChan; a
\* runLogin parked in the select receives it and returns the authorization
\* error, and a login that received it makes no token exchange and no write.
C22_EmptyRequestIsError ==
  /\ [](\A q \in Queries :
          (q.code = "" /\ q.error = "")
            => handler(q) = [chan |-> "err", code |-> "", err |-> NoCodeSignal])
  /\ [][FirstRequestEmpty
          => /\ codeChan' = codeChan
             /\ code' = code
             /\ IF lpc = "waiting"
                  THEN /\ received' = <<[chan |-> "err", code |-> "",
                                         err |-> NoCodeSignal]>>
                       /\ lerr' = authorizationFailed(NoCodeSignal)
                       /\ outcome' = "error"
                       /\ lpc' = "returning"
                  ELSE errChan' = Append(errChan, NoCodeSignal)]_vars
  /\ []((Len(received) > 0 /\ received[1].err = NoCodeSignal)
          => /\ exchangeCalls = 0
             /\ lwrites = 0
             /\ lerr = authorizationFailed(NoCodeSignal))

\* runLogin returned the authorization error after its one request, which
\* had neither parameter.
C22_Witness ==
  /\ lpc = "done"
  /\ reqs = 1
  /\ firstQuery = Query("", "", "")
  /\ received = <<[chan |-> "err", code |-> "", err |-> NoCodeSignal]>>
  /\ outcome = "error"
  /\ exchangeCalls = 0

\* The queries that carry both a non-empty error and a non-empty code.  No
\* other query of Queries carries the code of one of them.
BothParameters == {q \in Queries : q.code # "" /\ q.error # ""}

\* The step is the first /callback request, and has both parameters.
FirstRequestBoth ==
  /\ reqs = 0
  /\ reqs' = 1
  /\ firstQuery' \in BothParameters

\* C24: the handler answers a request with both an error and a code by the
\* callback error on errChan and never puts its code on codeChan: the code
\* of such a request is never buffered, never received by runLogin and so
\* never exchanged.
C24_ErrorTakesPrecedence ==
  /\ [](\A q \in BothParameters :
          /\ handler(q) =
               [chan |-> "err", code |-> "",
                err |-> Error("callback error", q.error, q.error_description)]
          /\ code # q.code
          /\ \A i \in 1..Len(codeChan) : codeChan[i] # q.code
          /\ \A i \in 1..Len(received) : received[i].code # q.code)
  /\ [][FirstRequestBoth
          => LET e == Error("callback error", firstQuery'.error,
                            firstQuery'.error_description)
             IN /\ codeChan' = codeChan
                /\ code' = code
                /\ lpc' # "exchange"
                /\ exchangeCalls' = exchangeCalls
                /\ IF lpc = "waiting"
                     THEN /\ received' = <<[chan |-> "err", code |-> "", err |-> e]>>
                          /\ lerr' = authorizationFailed(e)
                     ELSE errChan' = Append(errChan, e)]_vars

\* runLogin returned the authorization error of its one request, which
\* carried a code as well, without a token exchange.
C24_Witness ==
  /\ lpc = "done"
  /\ reqs = 1
  /\ firstQuery \in BothParameters
  /\ lerr = Error("authorization failed", firstQuery.error,
                  firstQuery.error_description)
  /\ exchangeCalls = 0

\* Both invocations have returned without an error.
BothSucceeded ==
  \A p \in Logins : logins[p].pc = "done" /\ logins[p].err = NoError

\* C23: after two concurrent logins that both succeeded, token.json holds
\* exactly what the one whose write finished last has saved: it is neither
\* absent nor undecodable nor made of parts of both.
C23_LastWriteWins ==
  BothSucceeded
    => /\ file.kind = "json"
       /\ file = saveToken(logins[writeOrder[Len(writeOrder)]].token)
       /\ disk = OnDisk(Lines(logins[writeOrder[Len(writeOrder)]].token))

====
